---- MODULE Spec2Model ----
(***************************************************************************)
(* Model of zkevm/examples/prove.rs: trace path resolution, batch          *)
(* discovery and ordering (load_batch_traces), and the prove / persist /   *)
(* verify run of test_target_circuit_prove_verify.                         *)
(*                                                                         *)
(* Strings that the code inspects character by character (MODE, through   *)
(* to_lowercase) are sequences of one-character strings; paths, which the  *)
(* code only builds and compares, are TLA+ strings.  An Option<T> is a     *)
(* sequence of length 0 (None) or 1 (Some).                                *)
(***************************************************************************)
EXTENDS Integers, Sequences, FiniteSets, TLC

VARIABLES
    env,            \* the process environment: TRACE_PATH, MODE, CIRCUIT
    fs,             \* path -> file content (a serialized BlockTrace), fixed for the run
    glob_order,     \* the order in which glob enumerates the files of the batch directory
    pc,             \* position of the run in the code
    paths,          \* `paths` of load_block_traces_for_test
    block_traces,   \* `block_traces` of test_target_circuit_prove_verify
    reads,          \* every path handed to get_block_trace_from_file, in call order
    discoveries,    \* number of calls of load_batch_traces
    batch_ret,      \* <<names, traces>> returned by the last load_batch_traces, or << >>
    prove_calls,    \* number of calls of create_target_circuit_proof_batch
    prover_input,   \* the batch handed to the prover, << >> before the call
    prove_circuit,  \* name of the circuit the prover was called for, << >> before
    proof,          \* the proof artifact held in memory, << >> before it exists
    output_file,    \* the file written to /tmp: << >> or <<[name, time, content]>>
    verified,       \* what verify_target_circuit_proof was called on: << >> or <<[circuit, proof]>>
    errors          \* the stages that panicked, in order

vars == <<env, fs, glob_order, pc, paths, block_traces, reads, discoveries, batch_ret,
          prove_calls, prover_input, prove_circuit, proof, output_file, verified, errors>>

----------------------------------------------------------------------------
(* Bounds of the model. *)

\* most files in the directory handed to load_batch_traces on its own
MaxFiles == 3
\* most files in the directory named by TRACE_PATH in a whole run
MaxDirFiles == 2
\* block heights of the files of a directory are 0..MaxHeight
MaxHeight == 2
\* Utc::now() at second precision is one of 0..MaxClock
MaxClock == 1

\* (1..=10) of load_block_traces_for_test
BridgeCount == 10

----------------------------------------------------------------------------
(* Options, strings. *)

None == << >>
Some(v) == <<v>>
IsSome(o) == Len(o) = 1

UpperCase == <<"A", "B", "C", "D", "E", "F", "G", "H", "I", "J", "K", "L", "M",
               "N", "O", "P", "Q", "R", "S", "T", "U", "V", "W", "X", "Y", "Z">>
LowerCase == <<"a", "b", "c", "d", "e", "f", "g", "h", "i", "j", "k", "l", "m",
               "n", "o", "p", "q", "r", "s", "t", "u", "v", "w", "x", "y", "z">>

\* str::to_lowercase, character by character
to_lowercase(s) ==
    [i \in 1..Len(s) |->
        IF \E k \in 1..Len(UpperCase) : UpperCase[k] = s[i]
        THEN LowerCase[CHOOSE k \in 1..Len(UpperCase) : UpperCase[k] = s[i]]
        ELSE s[i]]

\* the format spec {:02}: decimal, zero-padded to width 2
Format02(i) == IF i < 10 THEN "0" \o ToString(i) ELSE ToString(i)

\* read_env_var(name, default): the variable's value, the default when it is unset
read_env_var(name, default) == IF IsSome(env[name]) THEN env[name][1] ELSE default

----------------------------------------------------------------------------
(* The file system. *)

\* a file that does not deserialize into a BlockTrace
Malformed(p) == [wellformed |-> FALSE, hash |-> p, number |-> None]
\* a BlockTrace; `hash` tells the traces of different files apart, `number` is header.number
Trace(p, n) == [wellformed |-> TRUE, hash |-> p, number |-> n]

\* what get_block_trace_from_file finds at a path
FileAt(p) == IF p \in DOMAIN fs THEN fs[p] ELSE Malformed(p)

\* get_block_trace_from_file panics on a missing or malformed file
LoadFails(p) == ~FileAt(p).wellformed

BatchDir == "traces"
SingleFile == "trace.json"
MissingPath == "missing.json"
DirFile(i) == BatchDir \o "/" \o ToString(i) \o ".json"

\* std::fs::metadata(path): None when the path does not exist
metadata(p) ==
    IF p = BatchDir THEN Some([is_dir |-> TRUE])
    ELSE IF p \in DOMAIN fs THEN Some([is_dir |-> FALSE])
    ELSE None

\* glob("{batch_dir}/**/*.json"): the files under the directory, in the order the
\* file system enumerates them
glob(batch_dir) == IF batch_dir = BatchDir THEN glob_order ELSE << >>

----------------------------------------------------------------------------
(* load_batch_traces *)

\* the closure of the map: (trace_path, trace.clone(), trace.header.number.unwrap().as_u64())
NamedTrace(trace_path) ==
    <<trace_path, FileAt(trace_path), FileAt(trace_path).number[1]>>

\* index of the first file on which the map panics, 0 if it panics on none
FirstPanic(file_names) ==
    LET bad == {i \in 1..Len(file_names) :
                    LoadFails(file_names[i]) \/ ~IsSome(FileAt(file_names[i]).number)}
    IN IF bad = {} THEN 0 ELSE CHOOSE i \in bad : \A j \in bad : i <= j

cmp_reversed(a, b) ==
    IF b[3] < a[3] THEN "Less" ELSE IF b[3] = a[3] THEN "Equal" ELSE "Greater"

\* the comparator |a, b| a.2.cmp(&b.2)
cmp(a, b) ==
    IF a[3] < b[3] THEN "Less" ELSE IF a[3] = b[3] THEN "Equal" ELSE "Greater"

\* insertion of x into the sorted run s, behind every element that does not compare Greater
RECURSIVE InsertTail(_, _)
InsertTail(s, x) ==
    IF s = << >> THEN <<x>>
    ELSE IF cmp(s[Len(s)], x) = "Greater"
         THEN Append(InsertTail(SubSeq(s, 1, Len(s) - 1), x), s[Len(s)])
         ELSE Append(s, x)

RECURSIVE sort_unstable(_)
sort_unstable(s) ==
    IF s = << >> THEN << >>
    ELSE LET rest == sort_unstable(SubSeq(s, 1, Len(s) - 1))
             x == s[Len(s)]
             before == SelectSeq(rest, LAMBDA e : cmp(e, x) = "Less")
             after == SelectSeq(rest, LAMBDA e : cmp(e, x) # "Less")
         IN before \o <<x>> \o after

\* slice::sort_by: a stable sort by the comparator
RECURSIVE sort_by(_)
sort_by(s) ==
    IF s = << >> THEN << >>
    ELSE InsertTail(sort_by(SubSeq(s, 1, Len(s) - 1)), s[Len(s)])

unzip_misaligned(s) ==
    <<[i \in 1..Len(s) |-> s[Len(s) + 1 - i][1]], [i \in 1..Len(s) |-> s[i][2]]>>

\* .map(|(f, t, _)| (f, t)).unzip()
unzip(s) == <<[i \in 1..Len(s) |-> s[i][1]], [i \in 1..Len(s) |-> s[i][2]]>>

\* load_batch_traces(batch_dir): which stage panicked ("none" if none), the files
\* read up to there, and the returned pair of lists
load_batch_traces(batch_dir) ==
    LET file_names == glob(batch_dir)
        k == FirstPanic(file_names)
    IN IF k # 0
       THEN [panic |-> IF LoadFails(file_names[k]) THEN "load" ELSE "height",
             read |-> SubSeq(file_names, 1, k),
             ret |-> << >>]
       ELSE [panic |-> "none",
             read |-> file_names,
             ret |-> unzip(sort_by([i \in 1..Len(file_names) |-> NamedTrace(file_names[i])]))]

----------------------------------------------------------------------------
(* Inputs *)

Orders(S) ==
    {s \in [1..Cardinality(S) -> S] : \A i, j \in 1..Cardinality(S) : s[i] = s[j] => i = j}

\* what a file may hold: no BlockTrace at all, one without a height, one with a height h
Shapes(heights) ==
    {[wellformed |-> FALSE, number |-> None], [wellformed |-> TRUE, number |-> None]}
        \cup {[wellformed |-> TRUE, number |-> Some(h)] : h \in heights}
Content(p, shape) == [wellformed |-> shape.wellformed, hash |-> p, number |-> shape.number]

\* the directories of n files
DirectoriesOf(n) ==
    {[p \in {DirFile(i) : i \in 1..n} |-> Content(p, s[p])] :
        s \in [{DirFile(i) : i \in 1..n} -> Shapes(0..MaxHeight)]}

NoEnv == [TRACE_PATH |-> None, MODE |-> None, CIRCUIT |-> None]

\* the state of a run that has not started, over a given environment and file system
Fresh(e, f, order) ==
    /\ env = e
    /\ fs = f
    /\ glob_order = order
    /\ pc = "start"
    /\ paths = << >>
    /\ block_traces = << >>
    /\ reads = << >>
    /\ discoveries = 0
    /\ batch_ret = << >>
    /\ prove_calls = 0
    /\ prover_input = << >>
    /\ prove_circuit = << >>
    /\ proof = << >>
    /\ output_file = << >>
    /\ verified = << >>
    /\ errors = << >>

----------------------------------------------------------------------------
(* load_batch_traces on its own: a directory of up to MaxFiles files in any *)
(* enumeration order, and one call.                                         *)

BatchInit ==
    \E n \in 0..MaxFiles : \E d \in DirectoriesOf(n) : \E order \in Orders(DOMAIN d) :
        Fresh(NoEnv, d, order)

CallLoadBatchTraces ==
    /\ pc = "start"
    /\ LET r == load_batch_traces(BatchDir)
       IN /\ reads' = reads \o r.read
          /\ discoveries' = discoveries + 1
          /\ batch_ret' = r.ret
          /\ errors' = IF r.panic = "none" THEN errors ELSE Append(errors, r.panic)
          /\ pc' = IF r.panic = "none" THEN "returned" ELSE "panicked"
    /\ UNCHANGED <<env, fs, glob_order, paths, block_traces, prove_calls, prover_input,
                   prove_circuit, proof, output_file, verified>>

BatchNext == CallLoadBatchTraces

BatchSpec == BatchInit /\ [][BatchNext]_vars

----------------------------------------------------------------------------
(* parse_trace_path_from_mode and the bridge traces *)

M_empty == <<"e", "m", "p", "t", "y">>
M_greeter == <<"g", "r", "e", "e", "t", "e", "r">>
M_single == <<"s", "i", "n", "g", "l", "e">>
M_multiple == <<"m", "u", "l", "t", "i", "p", "l", "e">>
M_native == <<"n", "a", "t", "i", "v", "e">>
M_dao == <<"d", "a", "o">>
M_nft == <<"n", "f", "t">>
M_sushi == <<"s", "u", "s", "h", "i">>
M_batch == <<"b", "a", "t", "c", "h">>
M_pack == <<"p", "a", "c", "k">>

parse_trace_path_swapped(mode) ==
    CASE mode = M_empty -> "./zkevm/tests/traces/empty.json"
      [] mode = M_greeter -> "./zkevm/tests/traces/greeter.json"
      [] mode = M_single -> "./zkevm/tests/traces/erc20/single.json"
      [] mode = M_multiple -> "./zkevm/tests/traces/erc20/multiple.json"
      [] mode = M_native -> "./zkevm/tests/traces/native_transfer.json"
      [] mode = M_dao -> "./zkevm/tests/traces/nft/mint.json"
      [] mode = M_nft -> "./zkevm/tests/traces/dao/propose.json"
      [] mode = M_sushi -> "./zkevm/tests/traces/sushi/chef_withdraw.json"
      [] OTHER -> "./zkevm/tests/traces/erc20/multiple.json"

parse_trace_path_from_mode(mode) ==
    CASE mode = M_empty -> "./zkevm/tests/traces/empty.json"
      [] mode = M_greeter -> "./zkevm/tests/traces/greeter.json"
      [] mode = M_single -> "./zkevm/tests/traces/erc20/single.json"
      [] mode = M_multiple -> "./zkevm/tests/traces/erc20/multiple.json"
      [] mode = M_native -> "./zkevm/tests/traces/native_transfer.json"
      [] mode = M_dao -> "./zkevm/tests/traces/dao/propose.json"
      [] mode = M_nft -> "./zkevm/tests/traces/nft/mint.json"
      [] mode = M_sushi -> "./zkevm/tests/traces/sushi/chef_withdraw.json"
      [] OTHER -> "./zkevm/tests/traces/erc20/multiple.json"

\* (1..=10).map(|i| format!("zkevm/tests/traces/bridge/{:02}.json", i)).collect()
BridgePaths ==
    [i \in 1..BridgeCount |-> "zkevm/tests/traces/bridge/" \o Format02(i) \o ".json"]

----------------------------------------------------------------------------
(* The environments and file systems of a run *)

ModeNames == {M_empty, M_greeter, M_single, M_multiple, M_native, M_dao, M_nft, M_sushi,
              M_batch, M_pack}
\* other values of MODE: other letter cases, and names of no mode
M_BATCH == <<"B", "A", "T", "C", "H">>
M_bAtCh == <<"b", "A", "t", "C", "h">>
M_Pack == <<"P", "a", "c", "k">>
M_DAO == <<"D", "A", "O">>
M_foo == <<"f", "o", "o">>
OtherModes == {M_BATCH, M_bAtCh, M_Pack, M_DAO, M_foo}
ModeValues == {None} \cup {Some(m) : m \in ModeNames \cup OtherModes}
CircuitValues == {None, Some("super"), Some("evm")}

\* the trace files the repository ships, which the modes select
FixturePaths ==
    {parse_trace_path_from_mode(m) : m \in ModeNames} \cup {BridgePaths[i] : i \in 1..BridgeCount}

\* the shipped files as they should be: the bridge trace NN.json is block NN, each other
\* file is block 1
FixtureHeight(p) ==
    IF \E i \in 1..BridgeCount : BridgePaths[i] = p
    THEN CHOOSE i \in 1..BridgeCount : BridgePaths[i] = p
    ELSE 1
Fixtures == [p \in FixturePaths |-> Trace(p, Some(FixtureHeight(p)))]

\* the shipped files with at most one of them holding something else
FixtureLayouts ==
    {Fixtures} \cup
    {[Fixtures EXCEPT ![p] = Content(p, s)] : p \in FixturePaths, s \in Shapes({0})}

\* a run reads only the files its TRACE_PATH and MODE select: those range over every
\* content, the files the run never opens are the shipped ones
Init ==
    \E mode \in ModeValues, circuit \in CircuitValues :
        \/ \E tp \in {None, Some("")}, f \in FixtureLayouts :
              Fresh([TRACE_PATH |-> tp, MODE |-> mode, CIRCUIT |-> circuit],
                    f @@ (SingleFile :> Trace(SingleFile, Some(0))), << >>)
        \/ \E tp \in {Some(SingleFile), Some(MissingPath)}, s \in Shapes(0..MaxHeight) :
              Fresh([TRACE_PATH |-> tp, MODE |-> mode, CIRCUIT |-> circuit],
                    Fixtures @@ (SingleFile :> Content(SingleFile, s)), << >>)
        \/ \E n \in 0..MaxDirFiles : \E d \in DirectoriesOf(n) : \E order \in Orders(DOMAIN d) :
              Fresh([TRACE_PATH |-> Some(BatchDir), MODE |-> mode, CIRCUIT |-> circuit],
                    Fixtures @@ d @@ (SingleFile :> Trace(SingleFile, Some(0))), order)

----------------------------------------------------------------------------
(* load_block_traces_for_test *)

Panic(stage) ==
    /\ pc' = "panicked"
    /\ errors' = Append(errors, stage)

is_single_path_negated(trace_path) == metadata(trace_path)[1].is_dir

\* line 92: !std::fs::metadata(&trace_path).unwrap().is_dir()
is_single_path(trace_path) == ~metadata(trace_path)[1].is_dir

\* lines 81-97: the resolution of `paths`
ResolvePaths ==
    /\ pc = "start"
    /\ LET trace_path == read_env_var("TRACE_PATH", "")
       IN IF trace_path = ""
          THEN LET mode == read_env_var("MODE", M_multiple)
               IN /\ paths' = IF to_lowercase(mode) = M_batch \/ to_lowercase(mode) = M_pack
                              THEN BridgePaths
                              ELSE <<parse_trace_path_from_mode(mode)>>
                  /\ pc' = "paths"
                  /\ UNCHANGED <<reads, discoveries, batch_ret, errors>>
          ELSE IF ~IsSome(metadata(trace_path))
          THEN /\ Panic("metadata")
               /\ UNCHANGED <<paths, reads, discoveries, batch_ret>>
          ELSE IF is_single_path(trace_path)
          THEN /\ paths' = <<trace_path>>
               /\ pc' = "paths"
               /\ UNCHANGED <<reads, discoveries, batch_ret, errors>>
          ELSE LET r == load_batch_traces(trace_path)
               IN /\ reads' = reads \o r.read
                  /\ discoveries' = discoveries + 1
                  /\ batch_ret' = r.ret
                  /\ IF r.panic = "none"
                     THEN /\ paths' = r.ret[1]
                          /\ pc' = "paths"
                          /\ UNCHANGED errors
                     ELSE /\ Panic(r.panic)
                          /\ UNCHANGED paths
    /\ UNCHANGED <<env, fs, glob_order, block_traces, prove_calls, prover_input,
                   prove_circuit, proof, output_file, verified>>

\* lines 98-99: every path is loaded, in order, until a load panics
LoadTraces ==
    /\ pc = "paths"
    /\ LET bad == {i \in 1..Len(paths) : LoadFails(paths[i])}
           k == IF bad = {} THEN 0 ELSE CHOOSE i \in bad : \A j \in bad : i <= j
       IN IF k = 0
          THEN /\ reads' = reads \o paths
               /\ block_traces' = [i \in 1..Len(paths) |-> FileAt(paths[i])]
               /\ pc' = "loaded"
               /\ UNCHANGED errors
          ELSE /\ reads' = reads \o SubSeq(paths, 1, k)
               /\ Panic("load")
               /\ UNCHANGED block_traces
    /\ UNCHANGED <<env, fs, glob_order, paths, discoveries, batch_ret, prove_calls,
                   prover_input, prove_circuit, proof, output_file, verified>>

----------------------------------------------------------------------------
(* test_target_circuit_prove_verify::<C>, called by main with C = SuperCircuit *)

\* the type argument of the call in main
MainCircuit == "SuperCircuit"

\* C::name()
CircuitName(c) == IF c = "SuperCircuit" THEN "super" ELSE "evm"

\* lines 112-116: the prover is built and create_target_circuit_proof_batch::<C> is called
StartProving ==
    /\ pc = "loaded"
    /\ pc' = "proving"
    /\ prove_calls' = prove_calls + 1
    /\ prover_input' = <<block_traces>>
    /\ prove_circuit' = <<MainCircuit>>
    /\ UNCHANGED <<env, fs, glob_order, paths, block_traces, reads, discoveries, batch_ret,
                   proof, output_file, verified, errors>>

ProveReturn_retrying ==
    /\ pc = "proving"
    /\ \/ /\ proof' = <<[circuit |-> prove_circuit[1], batch |-> prover_input[1]]>>
          /\ pc' = "proved"
          /\ UNCHANGED <<errors, prove_calls>>
       \/ /\ prove_calls < 2
          /\ prove_calls' = prove_calls + 1
          /\ errors' = Append(errors, "prove")
          /\ UNCHANGED <<pc, proof>>
    /\ UNCHANGED <<env, fs, glob_order, paths, block_traces, reads, discoveries, batch_ret,
                   prover_input, prove_circuit, output_file, verified>>

\* line 117: the call returns a proof, or an error that unwrap turns into a panic
ProveReturn ==
    /\ pc = "proving"
    /\ \/ /\ proof' = <<[circuit |-> prove_circuit[1], batch |-> prover_input[1]]>>
          /\ pc' = "proved"
          /\ UNCHANGED errors
       \/ /\ Panic("prove")
          /\ UNCHANGED proof
    /\ UNCHANGED <<env, fs, glob_order, paths, block_traces, reads, discoveries, batch_ret,
                   prove_calls, prover_input, prove_circuit, output_file, verified>>

\* the `output_file` of lines 120-124
OutputFileName(c, now) == <<"/tmp/", CircuitName(c), "_", now, ".json">>

Persist_unchecked ==
    /\ pc = "proved"
    /\ \E now \in 0..MaxClock :
        \/ /\ output_file' = <<[name |-> OutputFileName(MainCircuit, now), content |-> proof]>>
           /\ pc' = "persisted"
           /\ UNCHANGED errors
        \/ /\ output_file' = << >>
           /\ pc' = "persisted"
           /\ errors' = Append(errors, "persist")
    /\ UNCHANGED <<env, fs, glob_order, paths, block_traces, reads, discoveries, batch_ret,
                   prove_calls, prover_input, prove_circuit, proof, verified>>

\* lines 120-127: File::create and serde_json::to_writer_pretty, each unwrapped
Persist ==
    /\ pc = "proved"
    /\ \E now \in 0..MaxClock :
        \/ /\ output_file' = <<[name |-> OutputFileName(MainCircuit, now), content |-> proof]>>
           /\ pc' = "persisted"
           /\ UNCHANGED errors
        \/ /\ output_file' = << >>
           /\ Panic("persist")
        \/ /\ output_file' = <<[name |-> OutputFileName(MainCircuit, now), content |-> << >>]>>
           /\ Panic("persist")
    /\ UNCHANGED <<env, fs, glob_order, paths, block_traces, reads, discoveries, batch_ret,
                   prove_calls, prover_input, prove_circuit, proof, verified>>

\* lines 129-132: the verifier is built and verify_target_circuit_proof::<C>(&proof) is called
StartVerifying ==
    /\ pc = "persisted"
    /\ pc' = "verifying"
    /\ verified' = <<[circuit |-> MainCircuit, proof |-> proof]>>
    /\ UNCHANGED <<env, fs, glob_order, paths, block_traces, reads, discoveries, batch_ret,
                   prove_calls, prover_input, prove_circuit, proof, output_file, errors>>

\* line 132: assert!(... .is_ok())
VerifyReturn ==
    /\ pc = "verifying"
    /\ \/ /\ pc' = "done"
          /\ UNCHANGED errors
       \/ Panic("verify")
    /\ UNCHANGED <<env, fs, glob_order, paths, block_traces, reads, discoveries, batch_ret,
                   prove_calls, prover_input, prove_circuit, proof, output_file, verified>>

Next ==
    \/ ResolvePaths
    \/ LoadTraces
    \/ StartProving
    \/ ProveReturn
    \/ Persist
    \/ StartVerifying
    \/ VerifyReturn

Spec == Init /\ [][Next]_vars

----------------------------------------------------------------------------
(* Properties of load_batch_traces, checked under BatchSpec *)

NonDecreasing(s) == \A i, j \in 1..Len(s) : i < j => s[i] <= s[j]
HeightsOf(traces) == [i \in 1..Len(traces) |-> traces[i].number[1]]
ArrivalHeights == [i \in 1..Len(glob_order) |-> FileAt(glob_order[i]).number[1]]
ArrivalIndex(p) == CHOOSE i \in 1..Len(glob_order) : glob_order[i] = p

\* every enumerated file holds a BlockTrace with a height
AllHaveHeights ==
    \A i \in 1..Len(glob_order) :
        FileAt(glob_order[i]).wellformed /\ IsSome(FileAt(glob_order[i]).number)
DistinctHeights ==
    \A i, j \in 1..Len(glob_order) :
        i # j => FileAt(glob_order[i]).number # FileAt(glob_order[j]).number

\* C1: when every enumerated file has a height and the heights are distinct, then in
\* whatever order glob enumerated the files the call returns, the returned traces
\* are exactly the loaded traces (a permutation of them), and their heights are
\* non-decreasing
C1_SortedPermutation ==
    (pc # "start" /\ AllHaveHeights /\ DistinctHeights) =>
        /\ pc = "returned"
        /\ Len(batch_ret[2]) = Len(glob_order)
        /\ {batch_ret[2][i] : i \in 1..Len(batch_ret[2])}
               = {FileAt(glob_order[i]) : i \in 1..Len(glob_order)}
        /\ NonDecreasing(HeightsOf(batch_ret[2]))

\* the arrival order [2, 0, 1] has been returned as [0, 1, 2]
C1_Witness ==
    /\ pc = "returned"
    /\ DistinctHeights
    /\ ArrivalHeights = <<2, 0, 1>>
    /\ HeightsOf(batch_ret[2]) = <<0, 1, 2>>

\* C4: the two returned lists have the same length and the trace at each position
\* is the trace of the file whose path is at that position
C4_IndexAligned ==
    pc = "returned" =>
        /\ Len(batch_ret[1]) = Len(batch_ret[2])
        /\ Len(batch_ret[1]) = Len(glob_order)
        /\ \A i \in 1..Len(batch_ret[1]) : batch_ret[2][i] = FileAt(batch_ret[1][i])

\* a call whose sort moved the files has returned
C4_Witness ==
    /\ pc = "returned"
    /\ Len(batch_ret[1]) = 3
    /\ batch_ret[1] # glob_order
    /\ \A i \in 1..3 : batch_ret[2][i].hash = batch_ret[1][i]

\* C10: when every enumerated file has a height, equal or not, the call returns;
\* the result is ordered by height alone, and files of equal height are in their
\* enumeration order in the path list and in the trace list
C10_StableSort ==
    (pc # "start" /\ AllHaveHeights) =>
        /\ pc = "returned"
        /\ NonDecreasing(HeightsOf(batch_ret[2]))
        /\ \A i, j \in 1..Len(batch_ret[2]) :
              (i < j /\ batch_ret[2][i].number = batch_ret[2][j].number) =>
                  /\ ArrivalIndex(batch_ret[1][i]) < ArrivalIndex(batch_ret[1][j])
                  /\ ArrivalIndex(batch_ret[2][i].hash) < ArrivalIndex(batch_ret[2][j].hash)

\* two files of height 1 arrived with a file of height 0 between them, and the call returned
C10_Witness ==
    /\ pc = "returned"
    /\ ArrivalHeights = <<1, 0, 1>>
    /\ HeightsOf(batch_ret[2]) = <<0, 1, 1>>

----------------------------------------------------------------------------
(* Properties of a run, checked under Spec *)

ExplicitPath == read_env_var("TRACE_PATH", "")

\* C5: when TRACE_PATH names something that is not a directory, then whatever MODE
\* is, `paths` is that one path, load_batch_traces is not called, and the only file
\* read is that one
C5_ExplicitFile ==
    (ExplicitPath # "" /\ IsSome(metadata(ExplicitPath)) /\ ~metadata(ExplicitPath)[1].is_dir
        /\ pc # "start") =>
        /\ pc # "panicked" \/ errors # <<"metadata">>
        /\ paths = <<ExplicitPath>>
        /\ discoveries = 0
        /\ reads = IF pc = "paths" THEN << >> ELSE <<ExplicitPath>>

\* the single file has been loaded although MODE asks for the bridge batch
C5_Witness ==
    /\ env.TRACE_PATH = Some(SingleFile)
    /\ env.MODE = Some(M_batch)
    /\ pc = "loaded"
    /\ Len(block_traces) = 1

\* the paths each value of MODE stands for
BridgeTraceFiles ==
    <<"zkevm/tests/traces/bridge/01.json", "zkevm/tests/traces/bridge/02.json",
      "zkevm/tests/traces/bridge/03.json", "zkevm/tests/traces/bridge/04.json",
      "zkevm/tests/traces/bridge/05.json", "zkevm/tests/traces/bridge/06.json",
      "zkevm/tests/traces/bridge/07.json", "zkevm/tests/traces/bridge/08.json",
      "zkevm/tests/traces/bridge/09.json", "zkevm/tests/traces/bridge/10.json">>
PathsOfMode(mode) ==
    IF mode \in {M_batch, M_pack, M_BATCH, M_bAtCh, M_Pack} THEN BridgeTraceFiles
    ELSE IF mode = M_empty THEN <<"./zkevm/tests/traces/empty.json">>
    ELSE IF mode = M_greeter THEN <<"./zkevm/tests/traces/greeter.json">>
    ELSE IF mode = M_single THEN <<"./zkevm/tests/traces/erc20/single.json">>
    ELSE IF mode = M_native THEN <<"./zkevm/tests/traces/native_transfer.json">>
    ELSE IF mode = M_dao THEN <<"./zkevm/tests/traces/dao/propose.json">>
    ELSE IF mode = M_nft THEN <<"./zkevm/tests/traces/nft/mint.json">>
    ELSE IF mode = M_sushi THEN <<"./zkevm/tests/traces/sushi/chef_withdraw.json">>
    ELSE <<"./zkevm/tests/traces/erc20/multiple.json">>

\* C6: with TRACE_PATH unset, `paths` depends on MODE only: batch or pack in any
\* letter case gives the ten bridge traces 01.json..10.json in that order, a mode
\* name gives the one path of that mode, anything else (MODE unset too) the path
\* of multiple
C6_PathsOfMode ==
    (ExplicitPath = "" /\ pc # "start") =>
        /\ pc # "panicked" \/ errors # <<"metadata">>
        /\ discoveries = 0
        /\ paths = PathsOfMode(read_env_var("MODE", M_multiple))

\* MODE=dao has resolved to one path
C6_Witness ==
    /\ env.TRACE_PATH = None
    /\ env.MODE = Some(M_dao)
    /\ pc = "paths"
    /\ paths = <<"./zkevm/tests/traces/dao/propose.json">>

\* C7: a stage that fails ends the run: once an error is recorded nothing more
\* happens (no later stage, no second attempt), at most one error is ever recorded,
\* the prover is called at most once, and a run that ends successfully recorded none
C7_ErrorsAreTerminal ==
    [][ /\ errors # << >> => (pc = "panicked" /\ UNCHANGED vars)
        /\ errors' # << >> => pc' = "panicked"
        /\ Len(errors') <= 1
        /\ prove_calls' <= 1
        /\ pc' = "done" => errors' = << >> ]_vars

\* the prover failed on its one call and the run stopped there
C7_Witness ==
    /\ pc = "panicked"
    /\ errors = <<"prove">>
    /\ prove_calls = 1
    /\ output_file = << >>
    /\ verified = << >>

\* the state of the run, in the terms of the state machine of the orchestrator
State ==
    CASE pc \in {"start", "paths"} -> "Idle"
      [] pc = "loaded" -> "TracesLoaded"
      [] pc = "proving" -> "Proving"
      [] pc \in {"proved", "persisted"} -> "Proved"
      [] pc = "verifying" -> "Verifying"
      [] pc = "done" -> "Verified"
      [] pc = "panicked" -> "Failed"

Chain == <<"Idle", "TracesLoaded", "Proving", "Proved", "Verifying", "Verified">>

\* C9: a run moves along Idle, TracesLoaded, Proving, Proved, Verifying, Verified
\* one state at a time, or from a state before Verified to Failed; nothing leaves
\* Verified or Failed; and when verification starts, proving has returned a proof,
\* that proof has been written to the output file, and it is the proof verified
C9_StateMachine ==
    [][ /\ State' # State =>
              \/ \E k \in 1..(Len(Chain) - 1) : State = Chain[k] /\ State' = Chain[k + 1]
              \/ State \notin {"Verified", "Failed"} /\ State' = "Failed"
        /\ State \in {"Verified", "Failed"} => UNCHANGED vars
        /\ State' = "Verifying" =>
              /\ proof' # << >>
              /\ errors' = << >>
              /\ output_file' # << >>
              /\ output_file'[1].content = proof'
              /\ verified' # << >>
              /\ verified'[1].proof = output_file'[1].content ]_vars

\* a run has gone through to Verified
C9_Witness ==
    /\ pc = "done"
    /\ output_file # << >>
    /\ verified # << >>
    /\ verified[1].proof = output_file[1].content

\* C2: no batch is assembled, and none is handed to the prover, that holds a trace
\* without a block height
C2_NoBatchWithoutHeight ==
    /\ pc = "loaded" => \A i \in 1..Len(block_traces) : IsSome(block_traces[i].number)
    /\ prover_input # << >> =>
          \A i \in 1..Len(prover_input[1]) : IsSome(prover_input[1][i].number)

\* C3: the batch handed to the prover is in ascending order of block height
C3_ProverInputAscending ==
    (prover_input # << >>
        /\ \A i \in 1..Len(prover_input[1]) : IsSome(prover_input[1][i].number)) =>
        NonDecreasing(HeightsOf(prover_input[1]))

\* C8: the circuit proved, the circuit in the name of the output file and the
\* circuit verified are the circuit that CIRCUIT names (super when it is unset)
C8_CircuitFromEnv ==
    /\ prove_circuit # << >> =>
          CircuitName(prove_circuit[1]) = read_env_var("CIRCUIT", "super")
    /\ output_file # << >> => output_file[1].name[2] = read_env_var("CIRCUIT", "super")
    /\ verified # << >> =>
          CircuitName(verified[1].circuit) = read_env_var("CIRCUIT", "super")

====
